---- MODULE Spec2Model ----
(***************************************************************************)
(* Model of the aurae cell registry (auraed/src/runtime/cells/cells.rs):   *)
(* a HashMap<CellName, Cell> behind one tokio Mutex, with the operations   *)
(* allocate, allocate_then, get, get_mut and free.  The Cell type and its  *)
(* allocate/free transitions live outside the two source files and are     *)
(* modelled from the specification's section 4.2.                          *)
(***************************************************************************)
EXTENDS Integers, FiniteSets, Sequences, TLC

\* ---------------------------------------------------------------- bounds
NumCallers == 2
NumNames == 2
NumBlueprints == 2
MaxCalls == 3

Callers == 1..NumCallers
Names == 1..NumNames
Blueprints == 1..NumBlueprints
NoCaller == 0

\* ------------------------------------------------------------ error kinds
\* The variant cells.rs matches on to evict an entry (lines 84 and 141).
Signal == "CellUnallocated"

\* Outcomes of the isolation backend when a group is created / destroyed.
CreateOutcomes == {"Ok", "FailedToAllocateCell", "AbortedAllocateCell"}
DestroyOutcomes == {"Ok", "FailedToFreeCell"}

\* Results an operation function (the closure f) can return.
OpOutcomes == {"Ok", Signal, "ExecutableNotFound"}

NotInvoked == "NotInvoked"

\* ------------------------------------------------------------------ Cell
CellStates == {"Unallocated", "Allocated", "Freed"}
Cell == [spec : Blueprints, state : CellStates]

\* cell.into(): the Cell built from a blueprint, before its group exists.
Into(b) == [spec |-> b, state |-> "Unallocated"]

\* Cell::allocate under backend outcome bo: Unallocated -> Allocated on
\* success (the group is created), stays Unallocated and reports the failure
\* otherwise.  grp is what happened to the Cell's isolation group.
CellAllocate(cell, bo) ==
    IF cell.state = "Unallocated"
    THEN IF bo = "Ok"
         THEN [cell |-> [cell EXCEPT !.state = "Allocated"], res |-> "Ok",
               grp |-> "create"]
         ELSE [cell |-> cell, res |-> bo, grp |-> "keep"]
    ELSE [cell |-> cell, res |-> "Ok", grp |-> "keep"]

\* Cell::free under backend outcome bo: Allocated -> Freed on success (the
\* group is released), stays Allocated on failure; any other state reports
\* the unallocated signal.
CellFree(cell, bo) ==
    IF cell.state = "Allocated"
    THEN IF bo = "Ok"
         THEN [cell |-> [cell EXCEPT !.state = "Freed"], res |-> "Ok",
               grp |-> "destroy"]
         ELSE [cell |-> cell, res |-> bo, grp |-> "keep"]
    ELSE [cell |-> cell, res |-> Signal, grp |-> "keep"]

\* ------------------------------------------------------------- closures
\* An operation function is a map from the Cell it is given to the Cell it
\* leaves behind, the Result it returns and its effect on the Cell's group.
\* A closure that returns o and leaves the lifecycle state alone.
OpFn(o) == [cell \in Cell |-> [cell |-> cell, res |-> o, grp |-> "keep"]]
\* The closure |cell| cell.free() of Cells::free.
FreeFn(bo) == [cell \in Cell |-> CellFree(cell, bo)]

\* Closures accepted by get / allocate_then (Fn(&Cell)): read only.
ReadFns == {OpFn(o) : o \in OpOutcomes}
\* Closures accepted by get_mut (FnOnce(&mut Cell)): may drive the Cell.
MutFns == ReadFns \cup {FreeFn(bo) : bo \in DestroyOutcomes}

\* ------------------------------------------------------ HashMap (Cache)
contains_key(c, n) == n \in DOMAIN c
remove(c, n) == [m \in DOMAIN c \ {n} |-> c[m]]
\* HashMap::insert: replaces whatever was stored under n.
insert(c, n, cell) ==
    [m \in DOMAIN c \cup {n} |-> IF m = n THEN cell ELSE c[m]]
\* cache.entry(n).or_insert_with(|| cell): inserts only when n is vacant.
or_insert_with(c, n, cell) ==
    IF contains_key(c, n) THEN c ELSE insert(c, n, cell)
EmptyCache == [m \in {} |-> Into(1)]

\* --------------------------------------------------------------- state
VARIABLES
    cache,      \* the HashMap<CellName, Cell> behind the mutex
    groups,     \* names whose isolation group exists in the backend
    lock,       \* owner of the mutex, NoCaller when free
    pc,         \* per caller: "idle", "waiting" (in lock().await) or
                \* "critical" (holding the guard)
    last,       \* the call that finished last: its arguments, its Result
                \* (res), the value of the Cell transition it ran (trans) and
                \* of the operation function it invoked (fres)
    removedBy,  \* per name: how its entry last left the map, until the next
                \* allocate call on it: "free" (a successful free), "evict"
                \* (an operation function's signal), "free_evict" (the
                \* signal of free's transition), or "none"
    race,       \* an allocate that created the entry of a name while other
                \* calls were in flight, and what became of those calls
    issued,     \* number of calls made so far
    cur         \* the call whose body is under way, when the body is
                \* followed statement by statement: the caller, what the
                \* first part of the body returned, and the map and the
                \* backend as the body found them

vars == <<cache, groups, lock, pc, last, removedBy, race, issued, cur>>

NoLast == [op |-> "none", name |-> 0, bp |-> 0,
           res |-> "none", trans |-> NotInvoked, fres |-> NotInvoked]
NoRace == [name |-> 0, bp |-> 0, rivals |-> {}, rres |-> "none"]
NoCur == [p |-> NoCaller, op |-> "none", name |-> 0, bp |-> 0,
          res |-> "none", trans |-> NotInvoked, fres |-> NotInvoked,
          cache0 |-> EmptyCache, groups0 |-> {}]

\* ------------------------------------------------- the registry's code
\* Every operator returns the cache it leaves, the Result it returns (res),
\* the value of the Cell transition it ran (trans) and of the operation
\* function it invoked (fres), NotInvoked when it ran none, and the effect
\* on the isolation group of the name (grp).

\* Variants of fn allocate with a slip in the duplicate test.
\* The contains_key test is missing: or_insert_with keeps the old Cell, the
\* transition runs on it and the call reports success.
allocate_unchecked(c, n, b, bo) ==
    LET inserted == or_insert_with(c, n, Into(b))
        t == CellAllocate(inserted[n], bo)
    IN  [cache |-> [inserted EXCEPT ![n] = t.cell],
         res |-> "Ok", trans |-> t.res, fres |-> NotInvoked, grp |-> t.grp]

\* The contains_key test is missing and HashMap::insert replaces the Cell.
allocate_replacing(c, n, b, bo) ==
    LET t == CellAllocate(Into(b), bo)
    IN  [cache |-> insert(c, n, t.cell),
         res |-> "Ok", trans |-> t.res, fres |-> NotInvoked, grp |-> t.grp]

\* The duplicate is detected from HashMap::insert's return value, after
\* the old Cell has been replaced.
allocate_insert_first(c, n, b, bo) ==
    IF contains_key(c, n)
    THEN [cache |-> insert(c, n, Into(b)), res |-> "CellExists",
          trans |-> NotInvoked, fres |-> NotInvoked, grp |-> "keep"]
    ELSE LET t == CellAllocate(Into(b), bo)
         IN  [cache |-> insert(c, n, t.cell),
              res |-> "Ok", trans |-> t.res, fres |-> NotInvoked,
              grp |-> t.grp]

\* fn allocate(cache, cell_name, cell): bo is the backend's outcome for the
\* group creation inside cell.allocate().  The value of cell.allocate() is
\* dropped by the statement `cell.allocate();`.
allocate(c, n, b, bo) ==
    IF contains_key(c, n)
    THEN [cache |-> c, res |-> "CellExists", trans |-> NotInvoked,
          fres |-> NotInvoked, grp |-> "keep"]
    ELSE LET inserted == or_insert_with(c, n, Into(b))
             t == CellAllocate(inserted[n], bo)
         IN  [cache |-> [inserted EXCEPT ![n] = t.cell],
              res |-> "Ok", trans |-> t.res, fres |-> NotInvoked,
              grp |-> t.grp]

\* Variants of fn get_mut with a slip in the eviction test of line 141.
\* The entry is evicted on any error of f, not only on the signal.
get_mut_evict_any_error(c, n, f) ==
    IF contains_key(c, n)
    THEN LET r == f[c[n]]
             mutated == [c EXCEPT ![n] = r.cell]
         IN  [cache |-> IF r.res # "Ok" THEN remove(mutated, n) ELSE mutated,
              res |-> r.res, trans |-> NotInvoked, fres |-> r.res,
              grp |-> r.grp]
    ELSE [cache |-> c, res |-> "CellNotFound", trans |-> NotInvoked,
          fres |-> NotInvoked, grp |-> "keep"]

\* The entry is never evicted.
get_mut_no_evict(c, n, f) ==
    IF contains_key(c, n)
    THEN LET r == f[c[n]]
         IN  [cache |-> [c EXCEPT ![n] = r.cell],
              res |-> r.res, trans |-> NotInvoked, fres |-> r.res,
              grp |-> r.grp]
    ELSE [cache |-> c, res |-> "CellNotFound", trans |-> NotInvoked,
          fres |-> NotInvoked, grp |-> "keep"]

\* The cache.remove of line 142 stands outside the test: the entry is
\* removed whatever f returned.
get_mut_evict_always(c, n, f) ==
    IF contains_key(c, n)
    THEN LET r == f[c[n]]
         IN  [cache |-> remove(c, n),
              res |-> r.res, trans |-> NotInvoked, fres |-> r.res,
              grp |-> r.grp]
    ELSE [cache |-> c, res |-> "CellNotFound", trans |-> NotInvoked,
          fres |-> NotInvoked, grp |-> "keep"]

\* fn get_mut(cache, cell_name, f)
get_mut(c, n, f) ==
    IF contains_key(c, n)
    THEN LET r == f[c[n]]
             mutated == [c EXCEPT ![n] = r.cell]
         IN  [cache |-> IF r.res = Signal THEN remove(mutated, n) ELSE mutated,
              res |-> r.res, trans |-> NotInvoked, fres |-> r.res,
              grp |-> r.grp]
    ELSE [cache |-> c, res |-> "CellNotFound", trans |-> NotInvoked,
          fres |-> NotInvoked, grp |-> "keep"]

\* Cells::allocate_then: allocate(..)? then f(cell), returned as it is.
allocate_then(c, n, b, bo, f) ==
    LET a == allocate(c, n, b, bo)
    IN  IF a.res # "Ok" THEN a
        ELSE LET r == f[a.cache[n]]
             IN  [a EXCEPT !.res = r.res, !.fres = r.res]

\* Cells::get that reports an evicted entry as CellNotFound instead of
\* handing back f's result.
get_rewrites_error(c, n, f) ==
    IF contains_key(c, n)
    THEN LET r == f[c[n]]
         IN  [cache |-> IF r.res = Signal THEN remove(c, n) ELSE c,
              res |-> IF r.res = Signal THEN "CellNotFound" ELSE r.res,
              trans |-> NotInvoked, fres |-> r.res, grp |-> "keep"]
    ELSE [cache |-> c, res |-> "CellNotFound", trans |-> NotInvoked,
          fres |-> NotInvoked, grp |-> "keep"]

\* Cells::get that evicts with cache.clear() instead of cache.remove(name).
get_clear_on_signal(c, n, f) ==
    IF contains_key(c, n)
    THEN LET r == f[c[n]]
         IN  [cache |-> IF r.res = Signal THEN EmptyCache ELSE c,
              res |-> r.res, trans |-> NotInvoked, fres |-> r.res,
              grp |-> "keep"]
    ELSE [cache |-> c, res |-> "CellNotFound", trans |-> NotInvoked,
          fres |-> NotInvoked, grp |-> "keep"]

\* Cells::get without the eviction of lines 84-86.
get_no_evict(c, n, f) ==
    IF contains_key(c, n)
    THEN LET r == f[c[n]]
         IN  [cache |-> c, res |-> r.res, trans |-> NotInvoked,
              fres |-> r.res, grp |-> "keep"]
    ELSE [cache |-> c, res |-> "CellNotFound", trans |-> NotInvoked,
          fres |-> NotInvoked, grp |-> "keep"]

\* Cells::get
get(c, n, f) ==
    IF contains_key(c, n)
    THEN LET r == f[c[n]]
         IN  [cache |-> IF r.res = Signal THEN remove(c, n) ELSE c,
              res |-> r.res, trans |-> NotInvoked, fres |-> r.res,
              grp |-> "keep"]
    ELSE [cache |-> c, res |-> "CellNotFound", trans |-> NotInvoked,
          fres |-> NotInvoked, grp |-> "keep"]

\* Cells::free that removes the entry before looking at the transition's
\* result.
free_remove_first(c, n, bo) ==
    LET m == get_mut(c, n, FreeFn(bo))
        t == [m EXCEPT !.trans = m.fres, !.fres = NotInvoked,
                       !.cache = remove(m.cache, n)]
    IN  t

\* Cells::free that treats a missing entry as already freed.
free_missing_ok(c, n, bo) ==
    LET m == get_mut(c, n, FreeFn(bo))
        t == [m EXCEPT !.trans = m.fres, !.fres = NotInvoked]
    IN  IF ~contains_key(c, n) THEN [t EXCEPT !.res = "Ok"]
        ELSE IF m.res # "Ok" THEN t
        ELSE [t EXCEPT !.cache = remove(m.cache, n)]

\* Cells::free without the final cache.remove.
free_no_remove(c, n, bo) ==
    LET m == get_mut(c, n, FreeFn(bo))
    IN  [m EXCEPT !.trans = m.fres, !.fres = NotInvoked]

\* Cells::free: get_mut(.., |cell| cell.free())? then cache.remove(..).
free(c, n, bo) ==
    LET m == get_mut(c, n, FreeFn(bo))
        t == [m EXCEPT !.trans = m.fres, !.fres = NotInvoked]
    IN  IF m.res # "Ok" THEN t
        ELSE IF contains_key(m.cache, n)
             THEN [t EXCEPT !.cache = remove(m.cache, n)]
             ELSE [t EXCEPT !.res = "CellNotFound"]

\* The backend after a call's effect grp on the group of name n.  Removing
\* an entry from the map drops its Cell; no code in cells.rs releases the
\* Cell's group at that point, so an eviction leaves the backend as it is.
ApplyGroup(g, n, grp) ==
    CASE grp = "create" -> g \cup {n}
      [] grp = "destroy" -> g \ {n}
      [] OTHER -> g

\* ---------------------------------------------------------------- Init
Init ==
    /\ cache = EmptyCache
    /\ groups = {}
    /\ lock = NoCaller
    /\ pc = [p \in Callers |-> "idle"]
    /\ last = NoLast
    /\ removedBy = [n \in Names |-> "none"]
    /\ race = NoRace
    /\ issued = 0
    /\ cur = NoCur

\* ------------------------------------------------------------ histories
\* The calls in flight beside p's: made, and not yet inside the lock.
Pending(p) == {q \in Callers \ {p} : pc[q] = "waiting"}

\* A race starts when p's allocate creates the entry of a name while other
\* calls are in flight: those are concurrent with p's.  Each of them leaves
\* the rivals when it finishes; of one that was an allocate on the raced
\* name the race keeps the result.  The race ends when any other call on
\* the raced name finishes.
RaceAfter(p, r, out) ==
    IF race = NoRace
    THEN IF r.op = "allocate" /\ out.res = "Ok" /\ Pending(p) # {}
         THEN [name |-> r.name, bp |-> r.bp, rivals |-> Pending(p),
               rres |-> "none"]
         ELSE NoRace
    ELSE IF p \in race.rivals /\ r.op = "allocate" /\ r.name = race.name
         THEN [race EXCEPT !.rivals = @ \ {p}, !.rres = out.res]
    ELSE IF r.name = race.name
         THEN NoRace
    ELSE [race EXCEPT !.rivals = @ \ {p}]

RemovedAfter(r, out) ==
    IF r.op \in {"allocate", "allocate_then"}
    THEN [removedBy EXCEPT ![r.name] = "none"]
    ELSE IF r.op = "free" /\ out.res = "Ok"
    THEN [removedBy EXCEPT ![r.name] = "free"]
    ELSE IF r.op = "free" /\ out.trans = Signal
    THEN [removedBy EXCEPT ![r.name] = "free_evict"]
    ELSE IF out.fres = Signal
    THEN [removedBy EXCEPT ![r.name] = "evict"]
    ELSE removedBy

\* -------------------------------------------------------------- actions
\* A caller invokes one of the five async methods and waits in
\* self.cache.lock().await.  The arguments of the call are first read
\* inside the critical section, so they are drawn there.
Call(p) ==
    /\ pc[p] = "idle"
    /\ issued < MaxCalls
    /\ issued' = issued + 1
    /\ pc' = [pc EXCEPT ![p] = "waiting"]
    /\ UNCHANGED <<cache, groups, lock, last, removedBy, race, cur>>

\* A lock that hands out its guard while another caller holds one.
Acquire_unguarded(p) ==
    /\ pc[p] = "waiting"
    /\ lock' = p
    /\ pc' = [pc EXCEPT ![p] = "critical"]
    /\ UNCHANGED <<cache, groups, last, removedBy, race, issued, cur>>

\* self.cache.lock().await completes.
Acquire(p) ==
    /\ pc[p] = "waiting"
    /\ lock = NoCaller
    /\ lock' = p
    /\ pc' = [pc EXCEPT ![p] = "critical"]
    /\ UNCHANGED <<cache, groups, last, removedBy, race, issued, cur>>

\* The end of the body of the call r, with outcome out: the guard is
\* dropped and the result handed back to the caller, who may call again.
Complete(p, r, out) ==
    /\ cache' = out.cache
    /\ groups' = ApplyGroup(groups, r.name, out.grp)
    /\ last' = [op |-> r.op, name |-> r.name, bp |-> r.bp,
                res |-> out.res, trans |-> out.trans, fres |-> out.fres]
    /\ removedBy' = RemovedAfter(r, out)
    /\ race' = RaceAfter(p, r, out)
    /\ lock' = NoCaller
    /\ pc' = [pc EXCEPT ![p] = "idle"]
    /\ UNCHANGED issued

\* A body whose error paths return without dropping the guard.
Finish_keeps_guard_on_error(p, r, out) ==
    /\ cache' = out.cache
    /\ groups' = ApplyGroup(groups, r.name, out.grp)
    /\ last' = [op |-> r.op, name |-> r.name, bp |-> r.bp,
                res |-> out.res, trans |-> out.trans, fres |-> out.fres]
    /\ removedBy' = RemovedAfter(r, out)
    /\ race' = RaceAfter(p, r, out)
    /\ lock' = IF out.res = "Ok" THEN NoCaller ELSE p
    /\ pc' = [pc EXCEPT ![p] = "idle"]
    /\ UNCHANGED <<issued, cur>>

\* The body of the call r ran from its first statement to its end in one
\* step, with outcome out.
Finish(p, r, out) ==
    /\ Complete(p, r, out)
    /\ UNCHANGED cur

Holding(p) == pc[p] = "critical" /\ lock = p

\* Cells::allocate
Allocate(p) ==
    /\ Holding(p)
    /\ \E n \in Names, b \in Blueprints, bo \in CreateOutcomes :
         Finish(p, [op |-> "allocate", name |-> n, bp |-> b],
                allocate(cache, n, b, bo))

\* Cells::allocate_then
AllocateThen(p) ==
    /\ Holding(p)
    /\ \E n \in Names, b \in Blueprints, bo \in CreateOutcomes, f \in ReadFns :
         Finish(p, [op |-> "allocate_then", name |-> n, bp |-> b],
                allocate_then(cache, n, b, bo, f))

\* Cells::get
Get(p) ==
    /\ Holding(p)
    /\ \E n \in Names, f \in ReadFns :
         Finish(p, [op |-> "get", name |-> n, bp |-> 0], get(cache, n, f))

\* Cells::get_mut
GetMut(p) ==
    /\ Holding(p)
    /\ \E n \in Names, f \in MutFns :
         Finish(p, [op |-> "get_mut", name |-> n, bp |-> 0],
                get_mut(cache, n, f))

\* Cells::free
Free(p) ==
    /\ Holding(p)
    /\ \E n \in Names, bo \in DestroyOutcomes :
         Finish(p, [op |-> "free", name |-> n, bp |-> 0], free(cache, n, bo))

Next ==
    \E p \in Callers :
        \/ Call(p)
        \/ Acquire(p)
        \/ Allocate(p)
        \/ AllocateThen(p)
        \/ Get(p)
        \/ GetMut(p)
        \/ Free(p)

Spec == Init /\ [][Next]_vars

\* The body of a call: synchronous code that runs to its return once the
\* lock is held, whichever method was called.
Body(p) == Allocate(p) \/ AllocateThen(p) \/ Get(p) \/ GetMut(p) \/ Free(p)

\* Spec with a fair lock (tokio's Mutex serves its waiters first come first
\* served, so a caller that keeps waiting is not passed over for ever) and
\* with bodies that run: operation functions and Cell transitions return.
LiveSpec ==
    /\ Spec
    /\ \A p \in Callers : SF_vars(Acquire(p)) /\ WF_vars(Body(p))

TypeOK ==
    /\ DOMAIN cache \subseteq Names
    /\ \A n \in DOMAIN cache : cache[n] \in Cell
    /\ groups \subseteq Names
    /\ lock \in Callers \cup {NoCaller}
    /\ pc \in [Callers -> {"idle", "waiting", "critical"}]
    /\ removedBy \in [Names -> {"none", "free", "evict", "free_evict"}]
    /\ race.rivals \subseteq Callers
    /\ issued \in 0..MaxCalls
    /\ cur.p \in Callers \cup {NoCaller}

\* ----------------------------------------- bodies, statement by statement
\* The same five methods with the body of each cut in two between its
\* statements, so that the states inside a critical section exist and what
\* keeps other callers out of them is the mutex alone.  A caller is inside
\* its body from Acquire on, whoever the lock names as owner.
Inside(p) == pc[p] = "critical"
Entering(p) == Inside(p) /\ cur.p # p
Leaving(p, op) == Inside(p) /\ cur.p = p /\ cur.op = op

\* The first part of the body of call r ends with the map c and the
\* backend g; res, trans and fres are what it has returned so far.  While
\* a body is under way cur describes it and last is blank.
Enter(p, r, c, g, res, trans, fres) ==
    /\ cache' = c
    /\ groups' = g
    /\ last' = NoLast
    /\ cur' = [p |-> p, op |-> r.op, name |-> r.name, bp |-> r.bp,
               res |-> res, trans |-> trans, fres |-> fres,
               cache0 |-> cache, groups0 |-> groups]
    /\ UNCHANGED <<lock, pc, removedBy, race, issued>>

\* The rest of the body ends with outcome out.
Leave(p, out) ==
    /\ Complete(p, [op |-> cur.op, name |-> cur.name, bp |-> cur.bp], out)
    /\ cur' = NoCur

\* What a part of the body returns when it changes nothing more.
Returned(res, trans, fres) ==
    [cache |-> cache, res |-> res, trans |-> trans, fres |-> fres,
     grp |-> "keep"]

\* The caller drops the future of its call while it waits for the lock
\* (a timeout around the call): lock().await of lines 57, 72, 81, 97 and
\* 103 is the only .await of each method, so the only place where a
\* future can be dropped.  This variant drops it inside the body as well.
Abandon_anywhere(p) ==
    /\ pc[p] \in {"waiting", "critical"}
    /\ pc' = [pc EXCEPT ![p] = "idle"]
    /\ lock' = IF lock = p THEN NoCaller ELSE lock
    /\ cur' = IF cur.p = p THEN NoCur ELSE cur
    /\ race' = IF race = NoRace THEN race
               ELSE [race EXCEPT !.rivals = @ \ {p}]
    /\ UNCHANGED <<cache, groups, last, removedBy, issued>>

\* The caller drops the future of its call while it waits for the lock.
Abandon(p) ==
    /\ pc[p] = "waiting"
    /\ pc' = [pc EXCEPT ![p] = "idle"]
    /\ race' = IF race = NoRace THEN race
               ELSE [race EXCEPT !.rivals = @ \ {p}]
    /\ UNCHANGED <<cache, groups, lock, last, removedBy, issued, cur>>

\* fn allocate, lines 121-126: the test for the name and the insertion.
AllocateInsert(p) ==
    /\ Entering(p)
    /\ \E n \in Names, b \in Blueprints :
         LET r == [op |-> "allocate", name |-> n, bp |-> b]
         IN  IF contains_key(cache, n)
             THEN Enter(p, r, cache, groups, "CellExists", NotInvoked,
                        NotInvoked)
             ELSE Enter(p, r, or_insert_with(cache, n, Into(b)), groups,
                        "Ok", NotInvoked, NotInvoked)

\* fn allocate, lines 127-128: cell.allocate() on the inserted Cell, and
\* the return.
AllocateTransition(p) ==
    /\ Leaving(p, "allocate")
    /\ \E bo \in CreateOutcomes :
         IF cur.res = "Ok" /\ contains_key(cache, cur.name)
         THEN LET t == CellAllocate(cache[cur.name], bo)
              IN  Leave(p, [cache |-> [cache EXCEPT ![cur.name] = t.cell],
                            res |-> "Ok", trans |-> t.res,
                            fres |-> NotInvoked, grp |-> t.grp])
         ELSE Leave(p, Returned(cur.res, NotInvoked, NotInvoked))

\* allocate_then written with the public methods, self.allocate(..).await?
\* and then self.get(..).await: the guard of the first is dropped before
\* the operation function runs.
AllocateThenAllocate_unlocked(p) ==
    /\ Entering(p)
    /\ \E n \in Names, b \in Blueprints, bo \in CreateOutcomes :
         LET a == allocate(cache, n, b, bo)
         IN  /\ cache' = a.cache
             /\ groups' = ApplyGroup(groups, n, a.grp)
             /\ last' = NoLast
             /\ cur' = [p |-> p, op |-> "allocate_then", name |-> n,
                        bp |-> b, res |-> a.res, trans |-> a.trans,
                        fres |-> NotInvoked, cache0 |-> cache,
                        groups0 |-> groups]
             /\ lock' = NoCaller
             /\ UNCHANGED <<pc, removedBy, race, issued>>

\* Cells::allocate_then, line 73: allocate(&mut cache, ..)?
AllocateThenAllocate(p) ==
    /\ Entering(p)
    /\ \E n \in Names, b \in Blueprints, bo \in CreateOutcomes :
         LET a == allocate(cache, n, b, bo)
         IN  Enter(p, [op |-> "allocate_then", name |-> n, bp |-> b],
                   a.cache, ApplyGroup(groups, n, a.grp),
                   a.res, a.trans, NotInvoked)

\* Cells::allocate_then, line 74: f(cell), returned as it is.
AllocateThenOp(p) ==
    /\ Leaving(p, "allocate_then")
    /\ \E f \in ReadFns :
         IF cur.res = "Ok" /\ contains_key(cache, cur.name)
         THEN LET r == f[cache[cur.name]]
              IN  Leave(p, Returned(r.res, cur.trans, r.res))
         ELSE Leave(p, Returned(cur.res, cur.trans, NotInvoked))

\* Cells::get, lines 82-83: the lookup and f(cell).
GetLookup(p) ==
    /\ Entering(p)
    /\ \E n \in Names, f \in ReadFns :
         LET r == [op |-> "get", name |-> n, bp |-> 0]
         IN  IF contains_key(cache, n)
             THEN Enter(p, r, cache, groups, f[cache[n]].res, NotInvoked,
                        f[cache[n]].res)
             ELSE Enter(p, r, cache, groups, "CellNotFound", NotInvoked,
                        NotInvoked)

\* Cells::get, lines 84-87: the eviction on the signal, and the return.
GetEvict(p) ==
    /\ Leaving(p, "get")
    /\ Leave(p, [Returned(cur.res, NotInvoked, cur.fres) EXCEPT
                   !.cache = IF cur.fres = Signal
                             THEN remove(cache, cur.name) ELSE cache])

\* fn get_mut, lines 139-140: the lookup and f(cell) on the mutable Cell.
GetMutApply(p) ==
    /\ Entering(p)
    /\ \E n \in Names, f \in MutFns :
         LET r == [op |-> "get_mut", name |-> n, bp |-> 0]
         IN  IF contains_key(cache, n)
             THEN LET t == f[cache[n]]
                  IN  Enter(p, r, [cache EXCEPT ![n] = t.cell],
                            ApplyGroup(groups, n, t.grp), t.res, NotInvoked,
                            t.res)
             ELSE Enter(p, r, cache, groups, "CellNotFound", NotInvoked,
                        NotInvoked)

\* fn get_mut, lines 141-144: the eviction on the signal, and the return.
GetMutEvict(p) ==
    /\ Leaving(p, "get_mut")
    /\ Leave(p, [Returned(cur.res, NotInvoked, cur.fres) EXCEPT
                   !.cache = IF cur.fres = Signal
                             THEN remove(cache, cur.name) ELSE cache])

\* Cells::free, line 104: get_mut(&mut cache, cell_name, |cell| cell.free())?
FreeTransition(p) ==
    /\ Entering(p)
    /\ \E n \in Names, bo \in DestroyOutcomes :
         LET m == get_mut(cache, n, FreeFn(bo))
         IN  Enter(p, [op |-> "free", name |-> n, bp |-> 0],
                   m.cache, ApplyGroup(groups, n, m.grp),
                   m.res, m.fres, NotInvoked)

\* Cells::free, lines 105-108: cache.remove(cell_name), whose None is
\* CellNotFound, and the return.
FreeRemove(p) ==
    /\ Leaving(p, "free")
    /\ IF cur.res # "Ok"
       THEN Leave(p, Returned(cur.res, cur.trans, NotInvoked))
       ELSE IF contains_key(cache, cur.name)
       THEN Leave(p, [Returned("Ok", cur.trans, NotInvoked) EXCEPT
                        !.cache = remove(cache, cur.name)])
       ELSE Leave(p, Returned("CellNotFound", cur.trans, NotInvoked))

StepNext ==
    \E p \in Callers :
        \/ Call(p)
        \/ Acquire(p)
        \/ Abandon(p)
        \/ AllocateInsert(p)
        \/ AllocateTransition(p)
        \/ AllocateThenAllocate(p)
        \/ AllocateThenOp(p)
        \/ GetLookup(p)
        \/ GetEvict(p)
        \/ GetMutApply(p)
        \/ GetMutEvict(p)
        \/ FreeTransition(p)
        \/ FreeRemove(p)

StepSpec == Init /\ [][StepNext]_vars

\* ------------------------------------------------------------ properties
\* A critical section runs in this step, for a call of one of the methods
\* ops; last' holds the call and what it returned.
Ran(ops) ==
    /\ \E p \in Callers : pc[p] = "critical" /\ pc'[p] = "idle"
    /\ last'.op \in ops
Quiet == \A p \in Callers : pc[p] = "idle"
Failed(r) == r \notin {"Ok", NotInvoked}

\* C1: the registry holds at most one Cell under a name: an allocate on a
\* name that already has an entry returns CellExists and leaves that one
\* entry as it is, an allocate on a name without entry returns Ok, and
\* after either the map holds exactly one entry for the name.
C1_AtMostOneCellPerName ==
    [][Ran({"allocate"}) =>
        /\ contains_key(cache', last'.name)
        /\ DOMAIN cache' = DOMAIN cache \cup {last'.name}
        /\ contains_key(cache, last'.name) =>
             last'.res = "CellExists" /\ cache'[last'.name] = cache[last'.name]
        /\ ~contains_key(cache, last'.name) => last'.res = "Ok"]_vars

\* Two calls were made on the new registry: the first created the entry,
\* the second, an allocate of the same name with another blueprint, got
\* CellExists, and the entry is still the first one.
C1_Witness ==
    /\ issued = 2 /\ Quiet
    /\ last.op = "allocate" /\ last.res = "CellExists"
    /\ DOMAIN cache = {last.name}
    /\ cache[last.name].spec # last.bp

\* C2: when an allocate creates the entry of a name while other calls are
\* in flight, every one of those calls that is an allocate on the same
\* name returns CellExists, in whatever order they get the lock, and the
\* name keeps its one Cell, built from the blueprint of the call that
\* succeeded.
C2_ConcurrentAllocate ==
    race # NoRace =>
        /\ race.rres \in {"none", "CellExists"}
        /\ contains_key(cache, race.name)
        /\ cache[race.name].spec = race.bp

\* Two allocate calls on one name were in flight together: one created the
\* entry, the other, with another blueprint, got CellExists.
C2_Witness ==
    /\ race # NoRace
    /\ race.rres = "CellExists"
    /\ last.op = "allocate" /\ last.name = race.name
    /\ last.res = "CellExists" /\ last.bp # race.bp
    /\ cache[race.name].spec = race.bp

\* C3: the registry and the backend agree about existence: a name has an
\* entry exactly when its isolation group exists.
C3_RegistryMatchesBackend ==
    \A n \in Names : contains_key(cache, n) <=> n \in groups

\* C4: an allocate on an absent name whose Cell transition fails returns
\* that error, and the entry stays in the map with its Cell Unallocated.
C4_AllocateFailureSurfaced ==
    [][Ran({"allocate"}) /\ Failed(last'.trans) =>
        /\ last'.res = last'.trans
        /\ contains_key(cache', last'.name)
        /\ cache'[last'.name].state = "Unallocated"]_vars

\* C5 as first stated: a free on a present name whose Cell transition fails,
\* whatever the failure, returns that error and keeps the entry; the entry
\* is removed only when the transition succeeds.
C5_FreeAnyFailureKeepsEntry ==
    [][Ran({"free"}) /\ contains_key(cache, last'.name) =>
        /\ Failed(last'.trans) =>
             last'.res = last'.trans /\ contains_key(cache', last'.name)
        /\ ~contains_key(cache', last'.name) => last'.trans = "Ok"]_vars

\* C5 amended: a free on a present name whose Cell transition fails returns
\* that error, and for every failure other than the unallocated signal the
\* entry is kept, its Cell unchanged; the entry is removed only when the
\* transition succeeds or reports the unallocated signal.
C5_FreeFailureKeepsEntry ==
    [][Ran({"free"}) /\ contains_key(cache, last'.name) =>
        /\ Failed(last'.trans) => last'.res = last'.trans
        /\ Failed(last'.trans) /\ last'.trans # Signal =>
             /\ contains_key(cache', last'.name)
             /\ cache'[last'.name] = cache[last'.name]
        /\ ~contains_key(cache', last'.name) =>
             last'.trans \in {"Ok", Signal}]_vars

\* A free whose transition failed in the backend: the error is returned and
\* the entry is still there, Allocated.
C5_Witness ==
    /\ last.op = "free"
    /\ last.res = "FailedToFreeCell" /\ last.trans = "FailedToFreeCell"
    /\ contains_key(cache, last.name)
    /\ cache[last.name].state = "Allocated"

\* C6: when the operation function of a get or get_mut on a present name
\* returns the unallocated signal, the entry is gone when the call returns
\* and the call returns that signal; a later get or get_mut on the name,
\* with no allocate in between, returns CellNotFound.
C6_SignalEvicts ==
    [][Ran({"get", "get_mut"}) =>
        /\ contains_key(cache, last'.name) /\ last'.fres = Signal =>
             /\ ~contains_key(cache', last'.name)
             /\ last'.res = Signal
        /\ removedBy[last'.name] = "evict" =>
             last'.res = "CellNotFound" /\ last'.fres = NotInvoked]_vars

\* An operation function returned the signal for a name, and a later get
\* on the name found nothing.
C6_Witness ==
    /\ last.op = "get" /\ last.res = "CellNotFound"
    /\ removedBy[last.name] = "evict"
    /\ ~contains_key(cache, last.name)

\* C7: when the operation function of an allocate_then returns the
\* unallocated signal, the entry just inserted is removed, as get and
\* get_mut do.
C7_AllocateThenEvicts ==
    [][Ran({"allocate_then"}) /\ last'.fres = Signal =>
        ~contains_key(cache', last'.name)]_vars

\* C8: get, get_mut and free on a name without entry return CellNotFound,
\* invoke neither the operation function nor the Cell's free transition,
\* and leave the registry and the backend as they were.
C8_AbsentIsNotFound ==
    [][Ran({"get", "get_mut", "free"}) /\ ~contains_key(cache, last'.name) =>
        /\ last'.res = "CellNotFound"
        /\ last'.fres = NotInvoked
        /\ last'.trans = NotInvoked
        /\ cache' = cache
        /\ groups' = groups]_vars

\* The first call on the new registry was a get: it returned CellNotFound
\* and the registry is still empty.
C8_Witness ==
    /\ issued = 1 /\ Quiet
    /\ last.op = "get" /\ last.res = "CellNotFound"
    /\ last.fres = NotInvoked
    /\ cache = EmptyCache

\* C9: a free whose transition succeeds returns Ok and removes the entry,
\* and from a successful free of a name until the next allocate on it, the
\* name has no entry and get, get_mut and free on it return CellNotFound.
C9_FreedIsGone ==
    [][/\ Ran({"free"}) =>
            /\ last'.trans = "Ok" => last'.res = "Ok"
            /\ last'.res = "Ok" =>
                 /\ contains_key(cache, last'.name)
                 /\ ~contains_key(cache', last'.name)
       /\ Ran({"get", "get_mut", "free"}) /\ removedBy[last'.name] = "free" =>
            last'.res = "CellNotFound"
       /\ \A n \in Names : removedBy'[n] = "free" => ~contains_key(cache', n)
      ]_vars

\* A name was freed with success, and a later free of it found nothing.
C9_Witness ==
    /\ last.op = "free" /\ last.res = "CellNotFound"
    /\ removedBy[last.name] = "free"
    /\ ~contains_key(cache, last.name)

\* C10: allocate and allocate_then on a name that has an entry change
\* nothing: the Cell under the name and every other entry stay as they
\* were, no Cell transition runs, the backend is untouched and the
\* operation function is not invoked.
C10_DuplicateAllocateNoMutation ==
    [][Ran({"allocate", "allocate_then"}) /\ contains_key(cache, last'.name) =>
        /\ cache' = cache
        /\ groups' = groups
        /\ last'.res = "CellExists"
        /\ last'.trans = NotInvoked
        /\ last'.fres = NotInvoked]_vars

\* An allocate_then was refused on a name whose Cell was built from another
\* blueprint, and that Cell is still the one stored.
C10_Witness ==
    /\ last.op = "allocate_then"
    /\ last.res = "CellExists" /\ last.fres = NotInvoked
    /\ contains_key(cache, last.name)
    /\ cache[last.name].spec # last.bp

\* C13: a get or get_mut on a present name invokes the operation function
\* and returns exactly its result; when that result is a success or an
\* error other than the unallocated signal, the entry stays in the map.
C13_ResultPassedThrough ==
    [][Ran({"get", "get_mut"}) /\ contains_key(cache, last'.name) =>
        /\ last'.fres # NotInvoked
        /\ last'.res = last'.fres
        /\ last'.fres # Signal => contains_key(cache', last'.name)
        /\ DOMAIN cache' \subseteq DOMAIN cache]_vars

\* The operation function of a get failed with an error that is not the
\* signal: the error came back as it was and the entry is still there.
C13_Witness ==
    /\ last.op = "get"
    /\ last.fres = "ExecutableNotFound" /\ last.res = "ExecutableNotFound"
    /\ contains_key(cache, last.name)

\* C14: the registry starts empty; a name enters the map only through an
\* allocate or allocate_then call on that name, and leaves it only through
\* a successful free of that name or through the eviction that follows the
\* unallocated signal of a call on that name.
C14_OnlyAllocateAddsOnlyFreeOrEvictionRemoves ==
    /\ cache = EmptyCache
    /\ [][\A n \in Names :
            /\ ~contains_key(cache, n) /\ contains_key(cache', n) =>
                 Ran({"allocate", "allocate_then"}) /\ last'.name = n
            /\ contains_key(cache, n) /\ ~contains_key(cache', n) =>
                 /\ Ran({"get", "get_mut", "free"}) /\ last'.name = n
                 /\ \/ last'.op = "free" /\ last'.res = "Ok"
                    \/ last'.fres = Signal
                    \/ last'.trans = Signal]_vars

\* One name was added by an allocate and is still there, another was added
\* and has been removed by a successful free.
C14_Witness ==
    /\ last.op = "free" /\ last.res = "Ok"
    /\ removedBy[last.name] = "free"
    /\ ~contains_key(cache, last.name)
    /\ DOMAIN cache # {}

\* C15: free runs the Cell's free transition through get_mut, so when the
\* transition returns the unallocated signal the entry is removed and free
\* returns that signal; free of a present name removes the entry exactly
\* when the transition succeeds or reports the signal.
C15_FreeEvictsOnSignal ==
    [][Ran({"free"}) /\ contains_key(cache, last'.name) =>
        /\ last'.trans # NotInvoked
        /\ last'.trans = Signal => last'.res = Signal
        /\ ~contains_key(cache', last'.name)
             <=> last'.trans \in {"Ok", Signal}]_vars

\* A free met a Cell that was not Allocated: it returned the signal and the
\* entry is gone.
C15_Witness ==
    /\ last.op = "free"
    /\ last.trans = Signal /\ last.res = Signal
    /\ removedBy[last.name] = "free_evict"
    /\ ~contains_key(cache, last.name)

\* C16: a call on a name leaves the entries of all other names as they
\* were: none appears, none disappears and no Cell changes.
C16_OtherNamesUntouched ==
    [][Ran({"allocate", "allocate_then", "get", "get_mut", "free"}) =>
        \A m \in Names \ {last'.name} :
            /\ contains_key(cache', m) <=> contains_key(cache, m)
            /\ contains_key(cache, m) => cache'[m] = cache[m]
            /\ m \in groups' <=> m \in groups]_vars

\* A name was evicted with the signal while another name had an entry,
\* which is still there.
C16_Witness ==
    /\ last.op \in {"get", "get_mut"}
    /\ last.fres = Signal
    /\ ~contains_key(cache, last.name)
    /\ \E m \in Names \ {last.name} : contains_key(cache, m)

\* ------------------------------------------- properties of the stepped bodies
\* The outcomes the call op(n, b) can have when its whole body runs alone
\* on the map c.
SerialOutcomes(op, c, n, b) ==
    CASE op = "allocate" ->
           {allocate(c, n, b, bo) : bo \in CreateOutcomes}
      [] op = "allocate_then" ->
           {allocate_then(c, n, b, x[1], x[2]) :
              x \in CreateOutcomes \X ReadFns}
      [] op = "get" -> {get(c, n, f) : f \in ReadFns}
      [] op = "get_mut" -> {get_mut(c, n, f) : f \in MutFns}
      [] op = "free" -> {free(c, n, bo) : bo \in DestroyOutcomes}
      [] OTHER -> {}

\* The body of caller p's call ends in this step.
Left(p) == pc[p] = "critical" /\ pc'[p] = "idle"
\* A body is between its two parts.
Midway == cur.p # NoCaller

\* C11: at most one caller is inside a registry operation at any time, the
\* one that owns the lock; the lock is held from the lookup to the end of
\* the body, so only its owner changes the map or the backend, and every
\* call leaves the map, the backend and its result as if its whole body had
\* run alone on the map it found when it acquired the lock.
C11_OneCallerInsideSerialOrder ==
    [][/\ \A p, q \in Callers :
            pc'[p] = "critical" /\ pc'[q] = "critical" => p = q
       /\ \A p \in Callers : pc'[p] = "critical" <=> lock' = p
       /\ cache' # cache \/ groups' # groups =>
            lock # NoCaller /\ pc[lock] = "critical" /\ cur'.p \in {lock, NoCaller}
       /\ \A p \in Callers : Left(p) =>
            /\ cur.p = p /\ lock = p /\ lock' = NoCaller
            /\ \E o \in SerialOutcomes(cur.op, cur.cache0, cur.name, cur.bp) :
                 /\ cache' = o.cache
                 /\ groups' = ApplyGroup(cur.groups0, cur.name, o.grp)
                 /\ last'.res = o.res
                 /\ last'.trans = o.trans
                 /\ last'.fres = o.fres]_vars

\* A caller is between the two parts of a body that has changed the map
\* while another caller waits for the lock.
C11_Witness ==
    /\ Midway
    /\ cache # cur.cache0
    /\ \E q \in Callers \ {cur.p} : pc[q] = "waiting"

\* C12: allocate_then is atomic: between the insertion of the entry and the
\* call of the operation function no other caller enters a body, and the
\* map, the backend and the entry stay as the insertion left them; when the
\* name was absent the operation function is called on the new entry and
\* allocate_then returns exactly its result.
C12_AllocateThenAtomic ==
    [][Midway /\ cur.op = "allocate_then" =>
        /\ cache' = cache /\ groups' = groups
        /\ \A q \in Callers \ {cur.p} : pc'[q] # "critical"
        /\ cur' # cur =>
             /\ Left(cur.p) /\ cur' = NoCur
             /\ last'.op = "allocate_then" /\ last'.name = cur.name
        /\ Left(cur.p) /\ ~contains_key(cur.cache0, cur.name) =>
             /\ contains_key(cache, cur.name)
             /\ cache[cur.name].spec = cur.bp
             /\ last'.fres # NotInvoked
             /\ last'.res = last'.fres]_vars

\* An allocate_then has inserted its entry and not yet called the operation
\* function, and another caller waits for the lock.
C12_Witness ==
    /\ Midway /\ cur.op = "allocate_then" /\ cur.res = "Ok"
    /\ ~contains_key(cur.cache0, cur.name)
    /\ contains_key(cache, cur.name)
    /\ \E q \in Callers \ {cur.p} : pc[q] = "waiting"

\* C17: an abandoned call is all-or-nothing: a call leaves the lock's queue
\* without the lock only with the map, the backend and the lock untouched;
\* a call that acquired the lock leaves its body only at the end of it, with
\* its result; and while an allocate or a free is partly applied no other
\* caller's call starts or ends.
C17_AbandonedAllOrNothing ==
    [][\A p \in Callers :
        /\ pc[p] = "waiting" /\ pc'[p] = "idle" =>
             UNCHANGED <<cache, groups, lock, last, cur>>
        /\ pc[p] = "critical" /\ pc'[p] # "critical" =>
             /\ cur.p = p /\ cur' = NoCur
             /\ last'.op = cur.op /\ last'.name = cur.name
             /\ last'.res # "none"
        /\ cur.p = p /\ cur.op \in {"allocate", "free"} =>
             /\ \A q \in Callers \ {p} : pc'[q] # "critical"
             /\ last' # last => Left(p)
             /\ cur' \in {cur, NoCur}]_vars

\* The one call made so far was abandoned in the lock's queue: no call has
\* finished, no caller is waiting or inside, and the registry is as new.
C17_Witness ==
    /\ issued = 1
    /\ Quiet /\ lock = NoCaller
    /\ last = NoLast /\ cur = NoCur
    /\ cache = EmptyCache /\ groups = {}

\* C19: free returns CellNotFound exactly when the name had no entry as
\* free acquired the lock: once the free transition has returned success
\* the entry is still in the map for the final cache.remove, which removes
\* it, and free returns Ok.
C19_FreeNotFoundOnlyWhenAbsent ==
    [][/\ Midway /\ cur.op = "free" /\ cur.res = "Ok" =>
            contains_key(cache, cur.name)
       /\ \A p \in Callers : Left(p) /\ cur.op = "free" =>
            /\ last'.res = "CellNotFound"
                 <=> ~contains_key(cur.cache0, cur.name)
            /\ cur.res = "Ok" =>
                 last'.res = "Ok" /\ ~contains_key(cache', cur.name)]_vars

\* The free transition has returned success and the entry, now Freed, is in
\* the map for the final cache.remove.
C19_Witness ==
    /\ Midway /\ cur.op = "free" /\ cur.res = "Ok"
    /\ contains_key(cache, cur.name)
    /\ cache[cur.name].state = "Freed"

\* ------------------------------------------------------------- liveness
\* C18: the registry is free of deadlock and starvation: with a fair lock
\* and operation functions and Cell transitions that return, every call
\* that waits for the lock acquires it, and every call that holds it
\* returns and has released it, on success and on every error path.
C18_EveryCallReturns ==
    \A p \in Callers :
        /\ (pc[p] = "waiting") ~> (pc[p] = "critical" /\ lock = p)
        /\ (pc[p] = "critical") ~> (pc[p] = "idle" /\ lock # p)

\* A call has returned an error and released the lock while another caller
\* waits for it.
C18_Witness ==
    /\ Failed(last.res) /\ last.res # "none"
    /\ lock = NoCaller
    /\ \E q \in Callers : pc[q] = "waiting"
====
